---- MODULE Spec2Model ----
(***************************************************************************)
(* Model of latex_to_mindmap.py: the text sanitizer (_clean_latex_text),   *)
(* the regex segmenter (parse / _parse_with_regex_fallback), the block     *)
(* extractor (_add_structured_content_to_section), the loose-content       *)
(* scanner (_add_content_to_current_section), the renderers                *)
(* (MindMapFormatter.to_markdown, MindMapNode.to_dict and to_json) and     *)
(* main(), which runs parse() and one renderer.  Text is modelled as TLA+  *)
(* strings, character for character; every regular expression of the       *)
(* source is an operator that computes the same leftmost match as          *)
(* Python's re.                                                            *)
(*                                                                         *)
(* A local value v used more than once in e is bound to a name x with      *)
(* The({ e : x \in {v} }), which is e with x = v.                          *)
(***************************************************************************)
EXTENDS Integers, Sequences, FiniteSets, TLC

VARIABLES
    tex,            \* LatexParser.tex_content
    pc,             \* position in parse(): "start", "loop", "done"
    content,        \* the body handed to _parse_with_regex_fallback
    matches,        \* list(re.finditer(section_pattern, content))
    idx,            \* loop index i over matches (1-based)
    current_pos,    \* current_pos (0-based offset into content)
    section_stack,  \* level -> node id
    nodes,          \* the MindMapNode objects, by id; id 1 is the root
    merges,         \* history: node ids whose content was set by the definition merge
    text,           \* argument of _clean_latex_text
    cleaned,        \* result of _clean_latex_text
    cpc,            \* position of the sanitizer run: "idle", "ready", "cleaned"
    max_depth,      \* arguments of to_markdown
    markmap_mode,
    truncate_at,
    lines,          \* history: what format_node returned for each node it printed
    markdown,       \* result of to_markdown
    rpc,            \* position of the renderer run: "idle", "ready", "rendered"
    format,         \* args.format of main(): "markdown" or "json"
    record,         \* history: root.to_dict() inside to_json
    output          \* output_content of main()

vars == <<tex, pc, content, matches, idx, current_pos, section_stack, nodes,
          merges, text, cleaned, cpc, max_depth, markmap_mode, truncate_at,
          lines, markdown, rpc, format, record, output>>

parseVars == <<tex, pc, content, matches, idx, current_pos, section_stack, nodes, merges>>
cleanVars == <<text, cleaned, cpc>>
renderVars == <<max_depth, markmap_mode, truncate_at, lines, markdown, rpc,
                format, record, output>>

(***************************************************************************)
(* Bounds of the explored inputs.                                          *)
(***************************************************************************)
MaxBlocks == 3      \* a document is a concatenation of at most MaxBlocks blocks
MaxPieces == 3      \* a sanitizer input is a concatenation of at most MaxPieces pieces
MaxWords == 3       \* a rendered content is at most MaxWords words
MaxMainBlocks == 3  \* a document handed to main() is at most MaxMainBlocks blocks

\* The({e : x \in {v}}) is e with x bound to the value v, computed once
The(S) == CHOOSE x \in S : TRUE

(***************************************************************************)
(* Characters and elementary string functions (Python str methods).        *)
(***************************************************************************)
Letters ==
    {"a","b","c","d","e","f","g","h","i","j","k","l","m","n","o","p","q","r",
     "s","t","u","v","w","x","y","z","A","B","C","D","E","F","G","H","I","J",
     "K","L","M","N","O","P","Q","R","S","T","U","V","W","X","Y","Z"}

Whitespace == {" ", "\n", "\t", "\r", "\f"}

Ch(s, i) == IF i >= 1 /\ i <= Len(s) THEN SubSeq(s, i, i) ELSE ""

StartsAt(s, i, lit) ==
    i >= 1 /\ i + Len(lit) - 1 <= Len(s) /\ SubSeq(s, i, i + Len(lit) - 1) = lit

\* the least element of a set of positions, 0 for the empty set
Least(S) == IF S = {} THEN 0 ELSE CHOOSE i \in S : \A j \in S : i <= j

\* 1-based position of the first occurrence of lit at or after from; 0 when absent
Find(s, lit, from) ==
    Least({i \in from..(Len(s) - Len(lit) + 1) : SubSeq(s, i, i + Len(lit) - 1) = lit})

\* number of leading whitespace characters
LeadWs(s) ==
    IF \A i \in 1..Len(s) : Ch(s, i) \in Whitespace THEN Len(s)
    ELSE (CHOOSE i \in 1..Len(s) :
              Ch(s, i) \notin Whitespace /\ \A j \in 1..(i - 1) : Ch(s, j) \in Whitespace) - 1

\* position of the last character that is not whitespace (0 when there is none)
LastNonWs(s) ==
    IF \A i \in 1..Len(s) : Ch(s, i) \in Whitespace THEN 0
    ELSE CHOOSE i \in 1..Len(s) :
             Ch(s, i) \notin Whitespace /\ \A j \in (i + 1)..Len(s) : Ch(s, j) \in Whitespace

\* str.strip()
Strip(s) ==
    The({ IF e = 0 THEN "" ELSE SubSeq(s, LeadWs(s) + 1, e)
          : e \in {LastNonWs(s)} })

\* length of the run [a-zA-Z]* starting at position i
RECURSIVE LetterRun(_, _)
LetterRun(s, i) == IF Ch(s, i) \in Letters THEN 1 + LetterRun(s, i + 1) ELSE 0

\* lit in s
Contains(s, lit) == Find(s, lit, 1) # 0

\* str.replace(old, new): every non-overlapping occurrence, left to right
RECURSIVE Replace(_, _, _)
Replace(s, old, new) ==
    The({ IF p = 0 THEN s
          ELSE SubSeq(s, 1, p - 1) \o new
               \o Replace(SubSeq(s, p + Len(old), Len(s)), old, new)
          : p \in {Find(s, old, 1)} })

\* str.title() of a lower-case word: first letter upper-cased
Upper(c) ==
    CASE c = "t" -> "T" [] c = "l" -> "L" [] c = "p" -> "P" [] c = "c" -> "C"
      [] c = "d" -> "D" [] c = "e" -> "E" [] c = "r" -> "R" [] c = "n" -> "N"
      [] c = "f" -> "F" [] OTHER -> c
Title(w) == IF w = "" THEN "" ELSE Upper(SubSeq(w, 1, 1)) \o SubSeq(w, 2, Len(w))

\* s[a:b] with Python's 0-based, end-exclusive offsets
Slice(s, a, b) == IF a >= b \/ a >= Len(s) THEN ""
                  ELSE SubSeq(s, a + 1, IF b > Len(s) THEN Len(s) ELSE b)

(***************************************************************************)
(* _clean_latex_text                                                       *)
(***************************************************************************)
Placeholder(k) == "__MATH_PLACEHOLDER_" \o ToString(k) \o "__"

\* a replaced prefix in front of the result r = [text, exprs] of the rest
Prepend(prefix, r) == [text |-> prefix \o r.text, exprs |-> r.exprs]

\* re.sub(r'\$([^$]+)\$', replace_math, text); exprs is math_expressions
RECURSIVE ProtectDollar(_, _)
ProtectDollar(s, exprs) ==
    The({ The({ IF q = 0 THEN [text |-> s, exprs |-> exprs]
                ELSE IF q = p + 1
                THEN Prepend(SubSeq(s, 1, p),
                             ProtectDollar(SubSeq(s, p + 1, Len(s)), exprs))
                ELSE Prepend(SubSeq(s, 1, p - 1) \o Placeholder(Len(exprs)),
                             ProtectDollar(SubSeq(s, q + 1, Len(s)),
                                           Append(exprs, SubSeq(s, p, q))))
                : q \in {IF p = 0 THEN 0 ELSE Find(s, "$", p + 1)} })
          : p \in {Find(s, "$", 1)} })

\* end (position of the closing parenthesis) of a match of
\* \\?\\\(([^)]+)\\\) starting at t, 0 when there is none: [^)]+ stops at
\* the first ')' which must be the one of the closing \)
ParenMathEnd(s, t) ==
    The({ IF cstart = 0 THEN 0
          ELSE The({ IF j >= cstart + 2 /\ Ch(s, j - 1) = "\\" THEN j ELSE 0
                     : j \in {Find(s, ")", cstart)} })
          : cstart \in {IF StartsAt(s, t, "\\\\(") THEN t + 3
                        ELSE IF StartsAt(s, t, "\\(") THEN t + 2 ELSE 0} })

\* re.sub(r'\\?\\\(([^)]+)\\\)', replace_math, text_protected)
RECURSIVE ProtectParen(_, _)
ProtectParen(s, exprs) ==
    The({ IF t = 0 THEN [text |-> s, exprs |-> exprs]
          ELSE The({ Prepend(SubSeq(s, 1, t - 1) \o Placeholder(Len(exprs)),
                             ProtectParen(SubSeq(s, j + 1, Len(s)),
                                          Append(exprs, SubSeq(s, t, j))))
                     : j \in {ParenMathEnd(s, t)} })
          : t \in {Least({t \in 1..Len(s) : ParenMathEnd(s, t) # 0})} })

\* match of \\[a-zA-Z]+\*?\{([^}]*)\} at t: the positions <<open, close>> of
\* its braces, <<0, 0>> when it does not match there
CmdArgAt(s, t) ==
    IF Ch(s, t) # "\\" THEN <<0, 0>>
    ELSE The({ The({ IF n = 0 \/ Ch(s, b) # "{" THEN <<0, 0>>
                     ELSE The({ IF e = 0 THEN <<0, 0>> ELSE <<b, e>>
                                : e \in {Find(s, "}", b + 1)} })
                     : b \in {IF Ch(s, t + 1 + n) = "*" THEN t + 2 + n ELSE t + 1 + n} })
               : n \in {LetterRun(s, t + 1)} })

\* re.sub(r'\\[a-zA-Z]+\*?\{([^}]*)\}', r'\1', s)
RECURSIVE StripCmdArgs(_)
StripCmdArgs(s) ==
    The({ IF t = 0 THEN s
          ELSE The({ SubSeq(s, 1, t - 1) \o SubSeq(s, m[1] + 1, m[2] - 1)
                     \o StripCmdArgs(SubSeq(s, m[2] + 1, Len(s)))
                     : m \in {CmdArgAt(s, t)} })
          : t \in {Least({t \in 1..Len(s) : CmdArgAt(s, t)[1] # 0})} })

\* length of the match of \\[a-zA-Z]+\*?(?!\() at t (0 = no match): the
\* greedy letter run and star are given back one step at a time until the
\* negative lookahead holds
BareCmdLen(s, t) ==
    IF Ch(s, t) # "\\" THEN 0
    ELSE The({ IF n = 0 THEN 0
               ELSE IF Ch(s, t + 1 + n) = "*"
               THEN (IF Ch(s, t + 2 + n) # "(" THEN 2 + n ELSE 1 + n)
               ELSE IF Ch(s, t + 1 + n) # "(" THEN 1 + n
               ELSE IF n >= 2 THEN n
               ELSE 0
               : n \in {LetterRun(s, t + 1)} })

\* re.sub(r'\\[a-zA-Z]+\*?(?!\()', '', s)
RECURSIVE StripBareCmds(_)
StripBareCmds(s) ==
    The({ IF t = 0 THEN s
          ELSE SubSeq(s, 1, t - 1)
               \o StripBareCmds(SubSeq(s, t + BareCmdLen(s, t), Len(s)))
          : t \in {Least({t \in 1..Len(s) : BareCmdLen(s, t) # 0})} })

\* re.sub(r'\{([^}]*)\}', r'\1', s)
RECURSIVE StripBraces(_)
StripBraces(s) ==
    The({ The({ IF e = 0 THEN s
                ELSE SubSeq(s, 1, p - 1) \o SubSeq(s, p + 1, e - 1)
                     \o StripBraces(SubSeq(s, e + 1, Len(s)))
                : e \in {IF p = 0 THEN 0 ELSE Find(s, "}", p + 1)} })
          : p \in {Find(s, "{", 1)} })

\* re.sub(r'\s+', ' ', s)
RECURSIVE CollapseWs(_)
CollapseWsKept(s) == s

CollapseWs(s) ==
    The({ IF p = 0 THEN s
          ELSE The({ SubSeq(s, 1, p - 1) \o " "
                     \o CollapseWs(SubSeq(rest, LeadWs(rest) + 1, Len(rest)))
                     : rest \in {SubSeq(s, p, Len(s))} })
          : p \in {Least({i \in 1..Len(s) : Ch(s, i) \in Whitespace})} })

\* the restore loop: for i, math_expr in enumerate(math_expressions)
RECURSIVE RestoreMath(_, _, _)
RestoreMath(s, exprs, k) ==
    IF k > Len(exprs) THEN s
    ELSE RestoreMath(Replace(s, Placeholder(k - 1), exprs[k]), exprs, k + 1)

\* the two protecting substitutions: [text, exprs]
Protect(s) ==
    The({ ProtectParen(r.text, r.exprs)
          : r \in {ProtectDollar(s, <<>>)} })

\* the command-stripping and whitespace rules, applied to the protected text
StripMarkup(s) ==
    CollapseWs(Replace(Replace(StripBraces(StripBareCmds(StripCmdArgs(s))),
                               "\\\\", " "), "~", " "))

_clean_latex_text(s) ==
    The({ Strip(RestoreMath(StripMarkup(prot.text), prot.exprs, 1))
          : prot \in {Protect(s)} })

(***************************************************************************)
(* The tables and the regular expressions of the segmenter.  Offsets are   *)
(* Python's: 0-based, end exclusive.                                       *)
(***************************************************************************)
SECTION_LEVELS ==
    [part |-> 0, chapter |-> 1, section |-> 2, subsection |-> 3,
     subsubsection |-> 4, paragraph |-> 5, subparagraph |-> 6]

THEOREM_ENVS ==
    {"theorem", "lemma", "proposition", "corollary", "definition",
     "example", "remark", "note", "proof", "claim", "fact"}

EQUATION_ENVS == {"align", "equation", "gather"}

\* SECTION_LEVELS.get(section_type, 2)
LevelOf(section_type) ==
    IF section_type \in DOMAIN SECTION_LEVELS THEN SECTION_LEVELS[section_type] ELSE 2

NoMatch == [ok |-> FALSE, start |-> 0, end |-> 0, name |-> "", inner |-> ""]

\* number of characters taken by the greedy (?:sub)*(?:sub)* at position t
RECURSIVE SubRun(_, _)
SubRun(s, t) == IF StartsAt(s, t, "sub") THEN 3 + SubRun(s, t + 3) ELSE 0

\* match of section_pattern = \\((?:sub)*(?:sub)*section)\{([^}]+)\} at the
\* 1-based position t (name is group 1, inner is group 2); b is the
\* position of the opening brace
SectionAt(s, t) ==
    IF Ch(s, t) # "\\" THEN NoMatch
    ELSE The({ IF ~StartsAt(s, b - 7, "section{") THEN NoMatch
               ELSE The({ IF e < b + 2 THEN NoMatch
                          ELSE [ok |-> TRUE, start |-> t - 1, end |-> e,
                                name |-> SubSeq(s, t + 1, b - 1),
                                inner |-> SubSeq(s, b + 1, e - 1)]
                          : e \in {Find(s, "}", b + 1)} })
               : b \in {t + 1 + SubRun(s, t + 1) + 7} })

\* match of \\begin\{(n1|n2|...)\}(.*?)\\end\{\1\} (DOTALL) at the 1-based
\* position t, for the environment names in names; c is the first position
\* after \begin{n}
EnvAtOpenEnded(s, t, names) ==
    IF ~StartsAt(s, t, "\\begin{") THEN NoMatch
    ELSE The({ IF N = {} THEN NoMatch
               ELSE The({ The({ IF e = 0
                                THEN [ok |-> TRUE, start |-> t - 1, end |-> Len(s),
                                      name |-> n,
                                      inner |-> SubSeq(s, t + Len(n) + 8, Len(s))]
                                ELSE [ok |-> TRUE, start |-> t - 1, end |-> e + Len(n) + 5,
                                      name |-> n, inner |-> SubSeq(s, t + Len(n) + 8, e - 1)]
                                : e \in {Find(s, "\\end{" \o n \o "}", t + Len(n) + 8)} })
                          : n \in N })
               : N \in {{n \in names : StartsAt(s, t + 7, n \o "}")}} })

EnvAt(s, t, names) ==
    IF ~StartsAt(s, t, "\\begin{") THEN NoMatch
    ELSE The({ IF N = {} THEN NoMatch
               ELSE The({ The({ IF e = 0 THEN NoMatch
                                ELSE [ok |-> TRUE, start |-> t - 1, end |-> e + Len(n) + 5,
                                      name |-> n, inner |-> SubSeq(s, t + Len(n) + 8, e - 1)]
                                : e \in {Find(s, "\\end{" \o n \o "}", t + Len(n) + 8)} })
                          : n \in N })
               : N \in {{n \in names : StartsAt(s, t + 7, n \o "}")}} })

\* match of open(.*?)close (DOTALL) at t for the literal delimiters of
\* \\\[(.*?)\\\] and \$\$(.*?)\$\$
DelimAt(s, t, open, close) ==
    IF ~StartsAt(s, t, open) THEN NoMatch
    ELSE The({ IF e = 0 THEN NoMatch
               ELSE [ok |-> TRUE, start |-> t - 1, end |-> e + Len(close) - 1,
                     name |-> "", inner |-> SubSeq(s, t + Len(open), e - 1)]
               : e \in {Find(s, close, t + Len(open))} })

\* match of paragraph_pattern = \\paragraph\{([^}]*)\}([^\\]*?)(?=\\|\Z) at t:
\* the lazy group 2 runs to the next backslash or to the end of the text
ParagraphAt(s, t) ==
    IF ~StartsAt(s, t, "\\paragraph{") THEN NoMatch
    ELSE The({ IF e = 0 THEN NoMatch
               ELSE The({ [ok |-> TRUE, start |-> t - 1, end |-> stop,
                           name |-> SubSeq(s, t + 11, e - 1),
                           inner |-> SubSeq(s, e + 1, stop)]
                          : stop \in {The({ IF b = 0 THEN Len(s) ELSE b - 1
                                            : b \in {Find(s, "\\", e + 1)} })} })
               : e \in {Find(s, "}", t + 11)} })

\* match of \\title\{([^}]+)\} at t
TitleAt(s, t) ==
    IF ~StartsAt(s, t, "\\title{") THEN NoMatch
    ELSE The({ IF e < t + 8 THEN NoMatch
               ELSE [ok |-> TRUE, start |-> t - 1, end |-> e, name |-> "",
                     inner |-> SubSeq(s, t + 7, e - 1)]
               : e \in {Find(s, "}", t + 7)} })

\* the pattern kinds of the segmenter, each a matcher at a position
MatchAt(kind, s, t) ==
    CASE kind = "section" -> SectionAt(s, t)
      [] kind = "equation_env" -> EnvAt(s, t, EQUATION_ENVS)
      [] kind = "begin_equation" -> EnvAt(s, t, {"equation"})
      [] kind = "theorem_env" -> EnvAt(s, t, THEOREM_ENVS)
      [] kind = "bracket" -> DelimAt(s, t, "\\[", "\\]")
      [] kind = "dollars" -> DelimAt(s, t, "$$", "$$")
      [] kind = "paragraph" -> ParagraphAt(s, t)
      [] kind = "document" -> EnvAt(s, t, {"document"})
      [] kind = "title" -> TitleAt(s, t)

\* the leftmost match of the pattern at or after the 1-based position from
Search(kind, s, from) ==
    The({ IF t = 0 THEN NoMatch ELSE MatchAt(kind, s, t)
          : t \in {Least({t \in from..Len(s) :
                            Ch(s, t) \in {"\\", "$"} /\ MatchAt(kind, s, t).ok})} })

\* list(re.finditer(pattern, s)), from the 0-based offset pos
RECURSIVE Matches(_, _, _)
Matches(kind, s, pos) ==
    The({ IF ~m.ok THEN <<>>
          ELSE <<[start |-> m.start, end |-> m.end, name |-> m.name, inner |-> m.inner]>>
               \o Matches(kind, s, m.end)
          : m \in {Search(kind, s, pos + 1)} })

\* re.match(r'^\\[a-zA-Z]+', s)
StartsWithCommand(s) == Ch(s, 1) = "\\" /\ Ch(s, 2) \in Letters

\* the literals that the math_patterns of _extract_main_text and
\* _extract_remaining_content search for
MarkerLits ==
    {"\\begin{" \o n \o "}" : n \in EQUATION_ENVS \cup THEOREM_ENVS}
    \cup {"\\[", "$$", "\\paragraph{"}

\* first_math_pos: the least match.start() over the patterns, len(content)
\* when none matches
FirstMathPos(s) ==
    The({ IF p = 0 THEN Len(s) ELSE p - 1
          : p \in {Least({p \in 1..Len(s) :
                            Ch(s, p) \in {"\\", "$"}
                            /\ \E l \in MarkerLits : StartsAt(s, p, l)})} })

_extract_main_text(s) ==
    The({ IF main_text # "" THEN _clean_latex_text(main_text) ELSE ""
          : main_text \in {Strip(Slice(s, 0, FirstMathPos(s)))} })

_extract_remaining_content(s) ==
    The({ IF first_math_pos < Len(s) THEN Strip(Slice(s, first_math_pos, Len(s))) ELSE ""
          : first_math_pos \in {FirstMathPos(s)} })

(***************************************************************************)
(* MindMapNode.  The tree is the sequence nodes; children are node ids.    *)
(* src_start is a history field: the offset in the body of the span the    *)
(* node was made from (the root has none and carries -1).                  *)
(***************************************************************************)
MindMapNode(title, cont, node_type, level, src) ==
    [title |-> title, content |-> cont, node_type |-> node_type, level |-> level,
     children |-> <<>>, src_start |-> src]

\* parent.add_child(child) for a freshly created child
add_child(ns, parent, child) ==
    [Append(ns, child) EXCEPT ![parent].children = Append(@, Len(ns) + 1)]

(***************************************************************************)
(* _add_content_to_current_section: loose content in front of the first    *)
(* section, or the whole body when there is no section.  base is the       *)
(* offset of s in the body; r = [nodes, merges], merges being the history  *)
(* of the nodes a definition was merged into.                              *)
(***************************************************************************)
\* one step of the loop over re.finditer(theorem_pattern, content)
LooseTheorem(r, cur, m, env_content, base) ==
    IF m.name = "definition" /\ r.nodes[cur].content = "" /\ r.nodes[cur].children = <<>>
    THEN [nodes |-> [r.nodes EXCEPT ![cur].content = env_content,
                                    ![cur].node_type = "section_with_definition"],
          merges |-> Append(r.merges, cur)]
    ELSE [nodes |-> add_child(r.nodes, cur,
                        MindMapNode(Title(m.name), env_content, m.name,
                                    r.nodes[cur].level + 1, base + m.start)),
          merges |-> r.merges]

RECURSIVE LooseTheorems(_, _, _, _, _)
LooseTheorems(r, cur, ms, k, base) ==
    IF k > Len(ms) THEN r
    ELSE LooseTheorems(LooseTheorem(r, cur, ms[k], _clean_latex_text(ms[k].inner), base),
                       cur, ms, k + 1, base)

\* the loop over re.finditer(equation_pattern, content)
RECURSIVE LooseEquations(_, _, _, _, _)
LooseEquations(ns, cur, ms, k, base) ==
    IF k > Len(ms) THEN ns
    ELSE LooseEquations(
             add_child(ns, cur,
                 MindMapNode("Equation", "$$" \o Strip(ms[k].inner) \o "$$", "equation",
                             ns[cur].level + 1, base + ms[k].start)),
             cur, ms, k + 1, base)

\* section_stack.get(max(section_stack.keys()))
CurrentSection(stack) == stack[CHOOSE l \in DOMAIN stack : \A m \in DOMAIN stack : m <= l]

_add_content_to_current_section(r, stack, s, base) ==
    The({ The({ [nodes |-> LooseEquations(t.nodes, cur, Matches("begin_equation", s, 0),
                                          1, base),
                 merges |-> t.merges]
                : t \in {LooseTheorems(r, cur, Matches("theorem_env", s, 0), 1, base)} })
          : cur \in {CurrentSection(stack)} })

(***************************************************************************)
(* _add_structured_content_to_section                                      *)
(***************************************************************************)
Element(type, cont, start, end, title) ==
    [type |-> type, content |-> cont, start |-> start, end |-> end,
     title |-> title, explanation |-> ""]

\* the equation loops: one element per match with a non-empty stripped body
RECURSIVE EquationElements(_, _)
EquationElements(ms, k) ==
    IF k > Len(ms) THEN <<>>
    ELSE The({ IF eq_content # ""
               THEN <<Element("equation", eq_content, ms[k].start, ms[k].end,
                              "Key Equation")>>
               ELSE <<>>
               : eq_content \in {Strip(ms[k].inner)} })
         \o EquationElements(ms, k + 1)

TheoremElements(ms) ==
    [k \in 1..Len(ms) |->
        Element("theorem", _clean_latex_text(ms[k].inner), ms[k].start, ms[k].end,
                Title(ms[k].name))]

\* the paragraph loop: one element per match with a non-empty cleaned body
RECURSIVE ParagraphElements(_, _)
ParagraphElements(ms, k) ==
    IF k > Len(ms) THEN <<>>
    ELSE The({ IF para_content # ""
               THEN <<Element("paragraph", para_content, ms[k].start, ms[k].end,
                              The({ IF para_title # "" THEN para_title ELSE "Note"
                                    : para_title \in {_clean_latex_text(ms[k].name)} }))>>
               ELSE <<>>
               : para_content \in {_clean_latex_text(ms[k].inner)} })
         \o ParagraphElements(ms, k + 1)

\* x put into the sorted sequence pre after the elements that start no later
Insert(pre, x) ==
    The({ SubSeq(pre, 1, n) \o <<x>> \o SubSeq(pre, n + 1, Len(pre))
          : n \in {Cardinality({k \in 1..Len(pre) : pre[k].start <= x.start})} })

\* all_elements.sort(key=lambda x: x['start']): a stable sort
RECURSIVE SortByStart(_)
SortByStart(es) ==
    IF es = <<>> THEN <<>>
    ELSE Insert(SortByStart(SubSeq(es, 1, Len(es) - 1)), es[Len(es)])

AllElements(s) ==
    SortByStart(EquationElements(Matches("equation_env", s, 0), 1)
                \o EquationElements(Matches("bracket", s, 0), 1)
                \o EquationElements(Matches("dollars", s, 0), 1)
                \o TheoremElements(Matches("theorem_env", s, 0))
                \o ParagraphElements(Matches("paragraph", s, 0), 1))

\* a gap of text counts as prose when it is non-empty, does not start with a
\* command and is non-empty after cleaning; "" otherwise
Prose(gap) ==
    The({ IF t # "" /\ ~StartsWithCommand(t) THEN _clean_latex_text(t) ELSE ""
          : t \in {Strip(gap)} })

\* "if text_before ...": prose in front of an element goes to the equation
\* that precedes it in enhanced_elements, and is dropped otherwise
AddBefore(enh, before) ==
    IF before # "" /\ enh # <<>> /\ enh[Len(enh)].type = "equation"
    THEN [enh EXCEPT ![Len(enh)].explanation = IF @ = "" THEN before ELSE @ \o " " \o before]
    ELSE enh

\* "if text_after ...": prose behind the element just appended explains it
\* when it is an equation, and becomes an element of its own otherwise
AddAfterAlwaysNode(enh, after, next_start) ==
    IF after = "" THEN enh
    ELSE Append(enh, Element("explanation", after, enh[Len(enh)].end, next_start,
                             "Explanation"))

AddAfter(enh, after, next_start) ==
    IF after = "" THEN enh
    ELSE IF enh[Len(enh)].type = "equation"
    THEN [enh EXCEPT ![Len(enh)].explanation = after]
    ELSE Append(enh, Element("explanation", after, enh[Len(enh)].end, next_start,
                             "Explanation"))

\* the loop "for i, element in enumerate(all_elements)" building enhanced_elements
RECURSIVE Enhance(_, _, _, _, _)
Enhance(s, all, i, enh, last_end) ==
    IF i > Len(all) THEN enh
    ELSE The({ Enhance(s, all, i + 1,
                   AddAfter(Append(AddBefore(enh,
                                IF all[i].start > last_end
                                THEN Prose(Slice(s, last_end, all[i].start)) ELSE ""),
                            all[i]),
                       Prose(Slice(s, all[i].end, next_start)), next_start),
                   next_start)
               : next_start \in {IF i + 1 <= Len(all) THEN all[i + 1].start ELSE Len(s)} })

\* the node made from one enhanced element
ElementNode(element, level, base) ==
    CASE element.type = "equation" ->
            IF element.explanation # ""
            THEN MindMapNode("Key Equation",
                     "$$" \o element.content \o "$$ " \o element.explanation,
                     "equation_with_explanation", level, base + element.start)
            ELSE MindMapNode("Key Equation", "$$" \o element.content \o "$$",
                     "equation", level, base + element.start)
      [] element.type = "theorem" ->
            MindMapNode(element.title, element.content, "theorem", level,
                        base + element.start)
      [] element.type = "paragraph" ->
            MindMapNode(element.title, element.content, "paragraph", level,
                        base + element.start)
      [] element.type = "explanation" ->
            MindMapNode(element.title, element.content, "explanation", level,
                        base + element.start)

\* the loop "for element in enhanced_elements"
RECURSIVE CreateNodes(_, _, _, _, _)
CreateNodes(ns, sec, enh, k, base) ==
    IF k > Len(enh) THEN ns
    ELSE CreateNodes(add_child(ns, sec, ElementNode(enh[k], ns[sec].level + 1, base)),
                     sec, enh, k + 1, base)

_add_structured_content_to_section(ns, sec, s, base) ==
    CreateNodes(ns, sec, Enhance(s, AllElements(s), 1, <<>>, 0), 1, base)

(***************************************************************************)
(* _extract_document_body and _extract_document_title                      *)
(***************************************************************************)
\* re.sub(lit + r'.*?\n', '', s): lit up to and including the end of its line
RECURSIVE RemoveToNewline(_, _)
RemoveToNewline(s, lit) ==
    The({ IF e = <<>> THEN s
          ELSE SubSeq(s, 1, e[1] - 1) \o RemoveToNewline(SubSeq(s, e[2] + 1, Len(s)), lit)
          : e \in {The({ IF p = 0 THEN <<>>
                         ELSE The({ IF n = 0 THEN <<>> ELSE <<p, n>>
                                    : n \in {Find(s, "\n", p + Len(lit))} })
                         : p \in {Find(s, lit, 1)} })} })

\* re.sub(lit + r'.*?\}\n?', '', s, flags=re.DOTALL), lit ending in the open brace
RECURSIVE RemoveBraced(_, _)
RemoveBraced(s, lit) ==
    The({ IF e = <<>> THEN s
          ELSE SubSeq(s, 1, e[1] - 1)
               \o RemoveBraced(SubSeq(s, (IF Ch(s, e[2] + 1) = "\n" THEN e[2] + 2
                                          ELSE e[2] + 1), Len(s)), lit)
          : e \in {The({ IF p = 0 THEN <<>>
                         ELSE The({ IF b = 0 THEN <<>> ELSE <<p, b>>
                                    : b \in {Find(s, "}", p + Len(lit))} })
                         : p \in {Find(s, lit, 1)} })} })

\* re.sub(r'\\maketitle\n?', '', s)
RECURSIVE RemoveMaketitle(_)
RemoveMaketitle(s) ==
    The({ IF p = 0 THEN s
          ELSE SubSeq(s, 1, p - 1)
               \o RemoveMaketitle(SubSeq(s, (IF Ch(s, p + 10) = "\n" THEN p + 11
                                             ELSE p + 10), Len(s)))
          : p \in {Find(s, "\\maketitle", 1)} })

_extract_document_body(s) ==
    The({ IF doc.ok THEN doc.inner
          ELSE Strip(RemoveToNewline(RemoveMaketitle(RemoveBraced(RemoveBraced(RemoveBraced(
                   RemoveToNewline(RemoveToNewline(s, "\\documentclass"), "\\usepackage"),
                   "\\title{"), "\\author{"), "\\date{")), "\\newtheorem"))
          : doc \in {Search("document", s, 1)} })

\* _extract_document_title
_extract_document_title(s) ==
    The({ IF title_match.ok THEN _clean_latex_text(title_match.inner)
          ELSE The({ IF section_match.ok THEN _clean_latex_text(section_match.inner)
                     ELSE ""
                     : section_match \in {Search("section", s, 1)} })
          : title_match \in {Search("title", s, 1)} })

\* title = self._extract_document_title() or "LaTeX Document"
DocumentTitle(s) ==
    The({ IF found # "" THEN found ELSE "LaTeX Document"
          : found \in {_extract_document_title(s)} })

(***************************************************************************)
(* _parse_with_regex_fallback: one iteration of the loop over matches, and *)
(* the code after the loop.  r = [nodes, merges].                          *)
(***************************************************************************)
\* the largest member of a non-empty set of levels, -1 for the empty set
TopLevel(P) == IF P = {} THEN -1 ELSE CHOOSE l \in P : \A m \in P : m <= l

\* the walk "while parent_level >= 0 and parent_level not in section_stack";
\* -1 when the walk runs off the bottom
ParentLevelFromOwnLevel(stack, level) ==
    TopLevel({l \in DOMAIN stack : l <= level})

ParentLevel(stack, level) ==
    TopLevel({l \in DOMAIN stack : l <= level - 1})

\* section_stack[level] = section_node, then "del section_stack[l]" for l > level
PushSectionKeepDeeper(stack, level, id) ==
    [l \in DOMAIN stack \cup {level} |-> IF l = level THEN id ELSE stack[l]]

PushSection(stack, level, id) ==
    [l \in {k \in DOMAIN stack \cup {level} : k <= level} |->
        IF l = level THEN id ELSE stack[l]]

\* "Process content before this section", and "Process remaining content
\* after last section" with stop = len(content)
LooseContent(body, pos, stop, stack, r) ==
    IF pos >= stop THEN r
    ELSE The({ The({ IF pre_content # ""
                     THEN _add_content_to_current_section(r, stack, pre_content,
                                                          pos + LeadWs(gap))
                     ELSE r
                     : pre_content \in {Strip(gap)} })
               : gap \in {Slice(body, pos, stop)} })

\* "if parent_level >= 0: section_stack[parent_level].add_child(section_node)"
AttachSection(ns, stack, parent_level, section_node) ==
    IF parent_level >= 0 THEN add_child(ns, stack[parent_level], section_node)
    ELSE Append(ns, section_node)

\* "Process the remaining content in this section"; from is the offset in
\* the body at which section_content starts
SectionBody(ns, id, section_content, from) ==
    The({ IF remaining_content # ""
          THEN _add_structured_content_to_section(ns, id, remaining_content,
                   from + FirstMathPos(section_content))
          ELSE ns
          : remaining_content \in {_extract_remaining_content(section_content)} })

\* the section node created for a match, attached and filled
NewSection(ns, stack, match, raw) ==
    The({ SectionBody(
              AttachSection(ns, stack, ParentLevel(stack, LevelOf(match.name)),
                  MindMapNode(_clean_latex_text(match.inner),
                              _extract_main_text(section_content),
                              match.name, LevelOf(match.name), match.start)),
              Len(ns) + 1, section_content, match.end + LeadWs(raw))
          : section_content \in {Strip(raw)} })

\* iteration i of the loop: [nodes, merges, stack, current_pos] after it
Iteration(body, ms, i, pos, stack, r) ==
    The({ The({ [nodes |-> NewSection(pre.nodes, stack, ms[i],
                                      Slice(body, ms[i].end, next_match_start)),
                 merges |-> pre.merges,
                 stack |-> PushSection(stack, LevelOf(ms[i].name), Len(pre.nodes) + 1),
                 current_pos |-> next_match_start]
                : pre \in {LooseContent(body, pos, ms[i].start, stack, r)} })
          : next_match_start \in {IF i + 1 <= Len(ms) THEN ms[i + 1].start ELSE Len(body)} })

(***************************************************************************)
(* Input documents: concatenations of at most MaxBlocks blocks.            *)
(***************************************************************************)
Blocks ==
    {"\\section{A}", "\\subsection{B}", "\\subsubsection{C}", "\\chapter{D}",
     "\\section{\\it}",
     "\\begin{definition}X\\end{definition}", "\\begin{definition}\\end{definition}",
     "\\begin{lemma}L\\end{lemma}", "\\begin{theorem}U",
     "\\begin{equation}x\\end{equation}", "\\[a\nb\\]",
     "\\paragraph{P}q", "\\begin{itemize}\\item i\\end{itemize}",
     " Hi. "}

RECURSIVE DocsOfLen(_)
DocsOfLen(n) ==
    IF n = 0 THEN {""} ELSE {d \o b : d \in DocsOfLen(n - 1), b \in Blocks}

Docs == UNION {DocsOfLen(n) : n \in 0..MaxBlocks}

\* no sanitizer run and no renderer run of their own
CleanIdle == text = "" /\ cleaned = "" /\ cpc = "idle"
RenderIdle ==
    /\ max_depth = 0
    /\ markmap_mode = FALSE
    /\ truncate_at = 0
    /\ lines = <<>>
    /\ markdown = ""
    /\ rpc = "idle"
    /\ format = ""
    /\ record = <<>>
    /\ output = ""

(***************************************************************************)
(* The parser as a state machine: parse() up to the loop, one action per   *)
(* loop iteration, and the code after the loop.                            *)
(***************************************************************************)
Init ==
    /\ tex \in Docs
    /\ pc = "start"
    /\ content = ""
    /\ matches = <<>>
    /\ idx = 1
    /\ current_pos = 0
    /\ section_stack = <<>>
    /\ nodes = <<>>
    /\ merges = <<>>
    /\ CleanIdle
    /\ RenderIdle

\* parse() down to the start of the loop of _parse_with_regex_fallback
ParseStart ==
    /\ pc = "start"
    /\ content' = _extract_document_body(tex)
    /\ nodes' = <<MindMapNode(DocumentTitle(tex), "", "document", 0, -1)>>
    /\ matches' = Matches("section", content', 0)
    /\ idx' = 1
    /\ current_pos' = 0
    /\ section_stack' = (0 :> 1)
    /\ pc' = "loop"
    /\ UNCHANGED <<tex, merges, cleanVars, renderVars>>

\* one iteration of "for i, match in enumerate(matches)"
ProcessSection ==
    /\ pc = "loop"
    /\ idx <= Len(matches)
    /\ \E r \in {Iteration(content, matches, idx, current_pos, section_stack,
                           [nodes |-> nodes, merges |-> merges])} :
          /\ nodes' = r.nodes
          /\ merges' = r.merges
          /\ section_stack' = r.stack
          /\ current_pos' = r.current_pos
    /\ idx' = idx + 1
    /\ UNCHANGED <<tex, pc, content, matches, cleanVars, renderVars>>

\* the code after the loop; parse() returns root
Finish ==
    /\ pc = "loop"
    /\ idx > Len(matches)
    /\ \E r \in {LooseContent(content, current_pos, Len(content), section_stack,
                              [nodes |-> nodes, merges |-> merges])} :
          /\ nodes' = r.nodes
          /\ merges' = r.merges
    /\ pc' = "done"
    /\ UNCHANGED <<tex, content, matches, idx, current_pos, section_stack, cleanVars,
                   renderVars>>

Next == ParseStart \/ ProcessSection \/ Finish

Spec == Init /\ [][Next]_vars

(***************************************************************************)
(* The sanitizer on its own: _clean_latex_text applied to a text that is   *)
(* a concatenation of at most MaxPieces pieces.                            *)
(***************************************************************************)
Pieces ==
    {"\\(", "\\)", "$", "\\alpha(x)", "{b}", " a  ", "\\textbf{c}", "y",
     "\t\n", "(z)", "2.", "\\it"}

RECURSIVE TextsOfLen(_)
TextsOfLen(n) ==
    IF n = 0 THEN {""} ELSE {t \o x : t \in TextsOfLen(n - 1), x \in Pieces}

Texts == UNION {TextsOfLen(n) : n \in 0..MaxPieces}

\* no parser run
ParseIdle ==
    /\ tex = ""
    /\ pc = "idle"
    /\ content = ""
    /\ matches = <<>>
    /\ idx = 1
    /\ current_pos = 0
    /\ section_stack = <<>>
    /\ merges = <<>>

CleanInit ==
    /\ text \in Texts
    /\ cleaned = ""
    /\ cpc = "ready"
    /\ ParseIdle
    /\ nodes = <<>>
    /\ RenderIdle

\* one call of _clean_latex_text
Clean ==
    /\ cpc = "ready"
    /\ cleaned' = _clean_latex_text(text)
    /\ cpc' = "cleaned"
    /\ UNCHANGED <<text, parseVars, renderVars>>

CleanNext == Clean

SpecClean == CleanInit /\ [][CleanNext]_vars

(***************************************************************************)
(* MindMapFormatter: _format_text_for_display and to_markdown.             *)
(***************************************************************************)
UpperCase == "ABCDEFGHIJKLMNOPQRSTUVWXYZ"
LowerCase == "abcdefghijklmnopqrstuvwxyz"

\* str.lower() of one character
LowerCh(c) ==
    The({ IF i = 0 THEN c ELSE SubSeq(LowerCase, i, i)
          : i \in {Least({i \in 1..26 : SubSeq(UpperCase, i, i) = c})} })

\* word in sentence.lower(), for a lower-case word
InLower(word, sentence) ==
    \E p \in 1..Len(sentence) :
        \A i \in 1..Len(word) : LowerCh(Ch(sentence, p + i - 1)) = SubSeq(word, i, i)

BreakWords == {"therefore", "thus", "however", "moreover", "furthermore"}

\* position of the first character behind the whitespace run that starts at p
RunEnd(s, p) ==
    The({ IF q = 0 THEN Len(s) + 1 ELSE q
          : q \in {Least({q \in p..Len(s) : Ch(s, q) \notin Whitespace})} })

\* re.split(r'(?<=[.!?])\s+', s): cut at every whitespace run that follows
\* a full stop, an exclamation mark or a question mark
RECURSIVE SplitSentences(_)
SplitSentences(s) ==
    The({ IF p = 0 THEN <<s>>
          ELSE <<SubSeq(s, 1, p - 1)>> \o SplitSentences(SubSeq(s, RunEnd(s, p), Len(s)))
          : p \in {Least({p \in 2..Len(s) :
                            Ch(s, p) \in Whitespace /\ Ch(s, p - 1) \in {".", "!", "?"}})} })

\* sep.join(parts)
RECURSIVE Join(_, _)
Join(parts, sep) ==
    IF parts = <<>> THEN ""
    ELSE IF Len(parts) = 1 THEN parts[1]
    ELSE parts[1] \o sep \o Join(SubSeq(parts, 2, Len(parts)), sep)

\* the loop "for sentence in sentences" and the flush behind it;
\* current is current_paragraph, with sentences[i] already appended
RECURSIVE Paragraphs(_, _, _)
Paragraphs(sentences, i, current) ==
    IF i > Len(sentences)
    THEN (IF current # <<>> THEN <<Join(current, " ")>> ELSE <<>>)
    ELSE IF Len(current) + 1 >= 3 \/ \E word \in BreakWords : InLower(word, sentences[i])
    THEN <<Join(Append(current, Strip(sentences[i])), " ")>>
         \o Paragraphs(sentences, i + 1, <<>>)
    ELSE Paragraphs(sentences, i + 1, Append(current, Strip(sentences[i])))

_format_text_for_display(s) == Join(Paragraphs(SplitSentences(s), 1, <<>>), "<br><br>")

\* str.split(sep)
RECURSIVE Split(_, _)
Split(s, sep) ==
    The({ IF p = 0 THEN <<s>>
          ELSE <<SubSeq(s, 1, p - 1)>> \o Split(SubSeq(s, p + Len(sep), Len(s)), sep)
          : p \in {Find(s, sep, 1)} })

\* str.split(sep, 1)
SplitOnce(s, sep) ==
    The({ IF p = 0 THEN <<s>>
          ELSE <<SubSeq(s, 1, p - 1), SubSeq(s, p + Len(sep), Len(s))>>
          : p \in {Find(s, sep, 1)} })

\* the four non-ASCII characters in front of each summary label of the
\* source are written as four ASCII characters
ChartSign == "[##]"
BookSign == "[==]"

\* <details><summary>label</summary><div ...>body</div></details>
Details(label, body) ==
    "<details><summary>" \o label
    \o "</summary><div style='max-width:400px;text-align:left;line-height:1.4;'>"
    \o body \o "</div></details>"

\* short_title = title if len(title) <= 50 else title[:47] + "..."
ShortTitleUncut(title) == title

ShortTitle(title) == IF Len(title) <= 50 THEN title ELSE SubSeq(title, 1, 47) \o "..."

\* the branch "node.node_type == 'equation_with_explanation' and markmap_mode"
FormulaTitle(node) ==
    IF ~Contains(node.content, "$$") THEN node.title
    ELSE The({ IF Len(parts) < 3 THEN node.title \o " " \o node.content
               ELSE The({ IF explanation # ""
                          THEN node.title \o " $$" \o parts[2] \o "$$ "
                               \o Details(ChartSign \o " Explanation",
                                          _format_text_for_display(explanation))
                          ELSE node.title \o " $$" \o parts[2] \o "$$"
                          : explanation \in
                              {Strip(Join(SubSeq(parts, 3, Len(parts)), "$$"))} })
               : parts \in {Split(node.content, "$$")} })

\* the branch "markmap_mode and len(node.content) > truncate_at"
CollapsedTitle(node) ==
    IF Ch(node.content, 1) = "$" THEN ShortTitle(node.title) \o " " \o node.content
    ELSE IF node.node_type = "equation_with_explanation"
    THEN The({ IF Len(content_parts) = 2
               THEN ShortTitle(node.title) \o " " \o content_parts[1] \o "$$ "
                    \o Details(ChartSign \o " Explanation",
                               _format_text_for_display(Strip(content_parts[2])))
               ELSE ShortTitle(node.title) \o " "
                    \o Details(ChartSign \o " Details",
                           _format_text_for_display(
                               Strip(Replace(node.content, "\\n", " "))))
               : content_parts \in {SplitOnce(node.content, "$$ ")} })
    ELSE ShortTitle(node.title) \o " "
         \o Details(BookSign \o (IF node.node_type = "section_with_definition"
                                 THEN " Definition" ELSE " Details"),
                    _format_text_for_display(Strip(Replace(node.content, "\n", " "))))

\* the two branches outside compact mode, and for short content in it
InlineTitleUncut(node) ==
    IF Ch(node.content, 1) = "$" THEN node.title \o " " \o node.content
    ELSE node.title \o ": " \o node.content

InlineTitle(node) ==
    IF Ch(node.content, 1) = "$" THEN node.title \o " " \o node.content
    ELSE IF Len(node.content) > 200
    THEN node.title \o ": " \o SubSeq(node.content, 1, 200) \o "..."
    ELSE node.title \o ": " \o node.content

\* "Format title with content" of format_node
FormatTitle(node, mode, limit) ==
    IF node.content = "" \/ node.content = node.title THEN node.title
    ELSE IF node.node_type = "equation_with_explanation" /\ mode THEN FormulaTitle(node)
    ELSE IF mode /\ Len(node.content) > limit THEN CollapsedTitle(node)
    ELSE InlineTitle(node)

\* indent = "  " * depth
RECURSIVE Indent(_)
Indent(depth) == IF depth <= 0 THEN "" ELSE "  " \o Indent(depth - 1)

\* format_node(node, depth) and its loop over node.children from the k-th
\* child on: the lines returned, one record per node printed
RECURSIVE format_node(_, _, _, _, _, _)
RECURSIVE FormatChildren(_, _, _, _, _, _, _)
format_nodeOffByOne(ns, n, depth, deepest, mode, limit) ==
    IF depth >= deepest THEN <<>>
    ELSE <<[node |-> n, depth |-> depth,
            line |-> Indent(depth) \o "- " \o FormatTitle(ns[n], mode, limit) \o "\n"]>>
         \o FormatChildren(ns, ns[n].children, 1, depth + 1, deepest, mode, limit)

format_node(ns, n, depth, deepest, mode, limit) ==
    IF depth > deepest THEN <<>>
    ELSE <<[node |-> n, depth |-> depth,
            line |-> Indent(depth) \o "- " \o FormatTitle(ns[n], mode, limit) \o "\n"]>>
         \o FormatChildren(ns, ns[n].children, 1, depth + 1, deepest, mode, limit)

FormatChildren(ns, kids, k, depth, deepest, mode, limit) ==
    IF k > Len(kids) THEN <<>>
    ELSE format_node(ns, kids[k], depth, deepest, mode, limit)
         \o FormatChildren(ns, kids, k + 1, depth, deepest, mode, limit)

\* the text of the lines, one behind the other
RECURSIVE LinesText(_)
LinesText(ls) == IF ls = <<>> THEN "" ELSE ls[1].line \o LinesText(SubSeq(ls, 2, Len(ls)))

\* to_markdown(root, max_depth, markmap_mode, truncate_at), from the lines of
\* format_node(child, 0) for the children of the root
to_markdown(ns, ls) == "# " \o ns[1].title \o "\n\n" \o LinesText(ls)

(***************************************************************************)
(* MindMapNode.to_dict and MindMapFormatter.to_json.  json.dumps is the     *)
(* encoder of the standard library with indent=2 and ensure_ascii=False.   *)
(***************************************************************************)
\* node.to_dict() for the node ns[n]
RECURSIVE to_dict(_, _)
to_dictTitleTwice(ns, n) ==
    [title |-> ns[n].title, content |-> ns[n].title, type |-> ns[n].node_type,
     level |-> ns[n].level,
     children |-> [k \in 1..Len(ns[n].children) |-> to_dict(ns, ns[n].children[k])]]

to_dict(ns, n) ==
    [title |-> ns[n].title, content |-> ns[n].content, type |-> ns[n].node_type,
     level |-> ns[n].level,
     children |-> [k \in 1..Len(ns[n].children) |-> to_dict(ns, ns[n].children[k])]]

\* the characters json.dumps writes as an escape sequence, and the sequence
Escaped == {"\"", "\\", "\n", "\t", "\r", "\f"}

EscapeCh(c) ==
    CASE c = "\"" -> "\\\""
      [] c = "\\" -> "\\\\"
      [] c = "\n" -> "\\n"
      [] c = "\t" -> "\\t"
      [] c = "\r" -> "\\r"
      [] c = "\f" -> "\\f"
      [] OTHER -> c

\* json.dumps(s) for a string s
RECURSIVE EscapeJson(_)
EscapeJson(s) ==
    The({ IF p = 0 THEN s
          ELSE SubSeq(s, 1, p - 1) \o EscapeCh(Ch(s, p))
               \o EscapeJson(SubSeq(s, p + 1, Len(s)))
          : p \in {Least({i \in 1..Len(s) : Ch(s, i) \in Escaped})} })

Quote(s) == "\"" \o EscapeJson(s) \o "\""

\* json.dumps(d, indent=2) for a record d of to_dict that opens at nesting
\* depth j, and for the members of a "children" list from the k-th on
RECURSIVE DumpsNode(_, _)
RECURSIVE DumpsItems(_, _, _)
DumpsNode(d, j) ==
    "{\n"
    \o Indent(j + 1) \o "\"title\": " \o Quote(d.title) \o ",\n"
    \o Indent(j + 1) \o "\"content\": " \o Quote(d.content) \o ",\n"
    \o Indent(j + 1) \o "\"type\": " \o Quote(d.type) \o ",\n"
    \o Indent(j + 1) \o "\"level\": " \o ToString(d.level) \o ",\n"
    \o Indent(j + 1) \o "\"children\": "
    \o (IF d.children = <<>> THEN "[]"
        ELSE "[\n" \o DumpsItems(d.children, 1, j + 2) \o Indent(j + 1) \o "]")
    \o "\n" \o Indent(j) \o "}"

DumpsItems(ds, k, j) ==
    IF k > Len(ds) THEN ""
    ELSE Indent(j) \o DumpsNode(ds[k], j) \o (IF k < Len(ds) THEN ",\n" ELSE "\n")
         \o DumpsItems(ds, k + 1, j)

\* to_json: json.dumps(root.to_dict(), indent=2, ensure_ascii=False)
to_json(d) == DumpsNode(d, 0)

(***************************************************************************)
(* The renderer on its own: to_markdown applied to the tree root -> node   *)
(* -> leaf, for a node of any title, content and kind.  The content is at  *)
(* most MaxWords words joined by single spaces.                            *)
(***************************************************************************)
Words == {"Hello.", "$$x$$", "Thus it is!", "more text"}

RECURSIVE ContentsOfLen(_)
ContentsOfLen(n) ==
    IF n = 0 THEN {""}
    ELSE IF n = 1 THEN Words
    ELSE {c \o " " \o w : c \in ContentsOfLen(n - 1), w \in Words}

Contents == UNION {ContentsOfLen(n) : n \in 0..MaxWords}

\* n copies of s
RECURSIVE Repeat(_, _)
Repeat(s, n) == IF n = 0 THEN "" ELSE s \o Repeat(s, n - 1)

\* contents around the 200 characters of "len(node.content) > 200": a text
\* of 200 characters, a text of 201, and display math of 203
LongContents ==
    {Repeat("abcd ", 39) \o "abcde", Repeat("abcd ", 40) \o "e",
     "$$" \o Repeat("x+", 99) \o "y$$"}

LongTitle == "A long heading that runs past the fifty characters."

Titles == {"T", "Hello.", LongTitle}

Kinds == {"section", "section_with_definition", "theorem", "equation",
          "equation_with_explanation"}

RenderTree(title, cont, kind) ==
    <<[MindMapNode("Doc", "", "document", 0, -1) EXCEPT !.children = <<2>>],
      [MindMapNode(title, cont, kind, 2, 0) EXCEPT !.children = <<3>>],
      MindMapNode("Leaf", "Leaf", "subsection", 3, 0)>>

RenderInit ==
    /\ nodes \in {RenderTree(t, c, k) :
                    t \in Titles, c \in Contents \cup LongContents, k \in Kinds}
    /\ max_depth \in {0, 10}
    /\ markmap_mode \in BOOLEAN
    /\ truncate_at \in {8, 100}
    /\ lines = <<>>
    /\ markdown = ""
    /\ rpc = "ready"
    /\ format = "markdown"
    /\ record = <<>>
    /\ output = ""
    /\ ParseIdle
    /\ CleanIdle

\* one call of to_markdown
Render ==
    /\ rpc = "ready"
    /\ lines' = FormatChildren(nodes, nodes[1].children, 1, 0, max_depth, markmap_mode,
                               truncate_at)
    /\ markdown' = to_markdown(nodes, lines')
    /\ rpc' = "rendered"
    /\ UNCHANGED <<parseVars, cleanVars, max_depth, markmap_mode, truncate_at, format,
                   record, output>>

RenderNext == Render

SpecRender == RenderInit /\ [][RenderNext]_vars

(***************************************************************************)
(* main(): parse() on the text of the input file, then to_markdown or      *)
(* to_json on the tree, as args.format says.  The documents are            *)
(* concatenations of at most MaxMainBlocks of the blocks below.            *)
(***************************************************************************)
MainBlocks ==
    {"\\section{A}", "\\subsection{B}", "\\subsubsection{C}",
     "\\begin{definition}X\\end{definition}", "\\begin{lemma}L\\end{lemma}",
     "\\begin{equation}x\\end{equation}", "\\[a\nb\\]", " Hi \"you\". "}

RECURSIVE MainDocsOfLen(_)
MainDocsOfLen(n) ==
    IF n = 0 THEN {""} ELSE {d \o b : d \in MainDocsOfLen(n - 1), b \in MainBlocks}

MainDocs == UNION {MainDocsOfLen(n) : n \in 0..MaxMainBlocks}

\* args of main(); the options of to_markdown keep their defaults for json
MainInit ==
    /\ tex \in MainDocs
    /\ pc = "start"
    /\ content = ""
    /\ matches = <<>>
    /\ idx = 1
    /\ current_pos = 0
    /\ section_stack = <<>>
    /\ nodes = <<>>
    /\ merges = <<>>
    /\ CleanIdle
    /\ format \in {"markdown", "json"}
    /\ max_depth \in (IF format = "markdown" THEN {0, 10} ELSE {10})
    /\ markmap_mode \in (IF format = "markdown" THEN BOOLEAN ELSE {FALSE})
    /\ truncate_at = (IF markmap_mode THEN 2 ELSE 100)
    /\ lines = <<>>
    /\ markdown = ""
    /\ record = <<>>
    /\ output = ""
    /\ rpc = "ready"

\* output_content = formatter.to_markdown(mind_map_root, ...)
OutputMarkdown ==
    /\ pc = "done"
    /\ rpc = "ready"
    /\ format = "markdown"
    /\ lines' = FormatChildren(nodes, nodes[1].children, 1, 0, max_depth, markmap_mode,
                               truncate_at)
    /\ markdown' = to_markdown(nodes, lines')
    /\ output' = markdown'
    /\ rpc' = "rendered"
    /\ UNCHANGED <<parseVars, cleanVars, max_depth, markmap_mode, truncate_at, format,
                   record>>

\* output_content = formatter.to_json(mind_map_root)
OutputJson ==
    /\ pc = "done"
    /\ rpc = "ready"
    /\ format = "json"
    /\ record' = to_dict(nodes, 1)
    /\ output' = to_json(record')
    /\ rpc' = "rendered"
    /\ UNCHANGED <<parseVars, cleanVars, max_depth, markmap_mode, truncate_at, format,
                   lines, markdown>>

MainNext == ParseStart \/ ProcessSection \/ Finish \/ OutputMarkdown \/ OutputJson

SpecMain == MainInit /\ [][MainNext]_vars

(***************************************************************************)
(* Properties of the tree returned by parse().                             *)
(***************************************************************************)
Root == 1
NodeIds == 1..Len(nodes)
ChildrenOf(n) == {nodes[n].children[j] : j \in 1..Len(nodes[n].children)}

\* the node made by the segmenter for the k-th match of section_pattern
SectionNode(k) ==
    CHOOSE n \in NodeIds :
        nodes[n].src_start = matches[k].start /\ nodes[n].node_type = matches[k].name

\* the following-content span of the k-th match, as offsets into the body
SpanEnd(k) == IF k + 1 <= Len(matches) THEN matches[k + 1].start ELSE Len(content)
SpanOf(k) == Slice(content, matches[k].end, SpanEnd(k))

\* the occurrences <<position, name>> in the body of the seven sectioning
\* commands of SECTION_LEVELS, each with a non-empty title argument
CommandOccurrences ==
    {o \in (1..Len(content)) \X DOMAIN SECTION_LEVELS :
        /\ StartsAt(content, o[1], "\\" \o o[2] \o "{")
        /\ Find(content, "}", o[1] + Len(o[2]) + 2) > o[1] + Len(o[2]) + 2}

\* C1: level monotonicity -- in the tree returned by parse(), every child of
\* every node has a level strictly greater than the level of that node.
C1_LevelMonotonicity ==
    pc = "done" =>
        \A n \in NodeIds : \A c \in ChildrenOf(n) : nodes[c].level > nodes[n].level

\* a finished tree in which the root holds loose content next to a section,
\* and the section holds an extracted block
C1_Witness ==
    /\ pc = "done"
    /\ \E c \in ChildrenOf(Root) : nodes[c].node_type = "lemma"
    /\ \E n \in ChildrenOf(Root) :
          /\ nodes[n].node_type = "section"
          /\ \E c \in ChildrenOf(n) : nodes[c].node_type = "equation"

\* C2: the root returned by parse() has level 0 and kind 'document',
\* whatever content was attached to it during the pass.
C2_RootIsDocument ==
    pc = "done" => nodes[Root].level = 0 /\ nodes[Root].node_type = "document"

\* C3: order preservation -- the children of every node of the returned
\* tree, the root included, are in the order of the start offsets of the
\* spans they were made from.
C3_OrderPreserved ==
    pc = "done" =>
        \A n \in NodeIds : \A i, j \in 1..Len(nodes[n].children) :
            i < j => nodes[nodes[n].children[i]].src_start
                         < nodes[nodes[n].children[j]].src_start

\* the well-formed structural elements inside a span of text: equations,
\* theorem-like environments, \paragraph directives and lists
StructuralCount(s) ==
    Len(Matches("equation_env", s, 0)) + Len(Matches("bracket", s, 0))
    + Len(Matches("dollars", s, 0)) + Len(Matches("theorem_env", s, 0))
    + Len(Matches("paragraph", s, 0))
    + Cardinality({t \in 1..Len(s) : EnvAt(s, t, {"itemize", "enumerate"}).ok})

\* the kinds of the nodes that stand for a structural element
StructuralKinds ==
    {"equation", "equation_with_explanation", "theorem", "paragraph", "list",
     "itemize", "enumerate"} \cup THEOREM_ENVS

\* C5: no orphan structural content -- every well-formed equation,
\* theorem-like environment, \paragraph directive and list inside a
\* section's span is one node under that section, or the one definition
\* merged into the section.
C5_NoOrphanContent ==
    pc = "done" =>
        \A k \in 1..Len(matches) :
            StructuralCount(SpanOf(k)) =
                Cardinality({c \in ChildrenOf(SectionNode(k)) :
                                nodes[c].node_type \in StructuralKinds})
                + (IF nodes[SectionNode(k)].node_type = "section_with_definition"
                   THEN 1 ELSE 0)

\* C6: definition merge -- a section whose span starts with a well-formed
\* definition environment (so that the section has no content and no
\* children when the definition is reached) takes the sanitized body as its
\* own content, becomes 'section_with_definition', and gets no child for it.
C6_DefinitionMerged ==
    pc = "done" =>
        \A k \in 1..Len(matches) :
            \A d \in {EnvAt(Strip(SpanOf(k)), 1, {"definition"})} :
                d.ok =>
                    \E n \in NodeIds :
                        /\ nodes[n].src_start = matches[k].start
                        /\ nodes[n].content = _clean_latex_text(d.inner)
                        /\ nodes[n].node_type = "section_with_definition"
                        /\ \A c \in ChildrenOf(n) :
                              nodes[c].src_start # matches[k].end + LeadWs(SpanOf(k))

\* the sectioning commands in front of offset at whose level is below level
Above(at, level) ==
    {o \in CommandOccurrences : o[1] - 1 < at /\ SECTION_LEVELS[o[2]] < level}

\* offset at which the main text of the k-th section stops: the first
\* equation/theorem/paragraph marker or the next sectioning command
MainTextStop(k) ==
    The({ IF p = 0 THEN Len(content) ELSE p - 1
          : p \in {Least({p \in (matches[k].end + 1)..Len(content) :
                            /\ Ch(content, p) \in {"\\", "$"}
                            /\ \/ \E l \in MarkerLits : StartsAt(content, p, l)
                               \/ \E o \in CommandOccurrences : o[1] = p})} })

\* C7: hierarchy reconstruction -- every section node is attached exactly
\* once, under the node of the most recent preceding sectioning command of
\* strictly lower level (the root when there is none), and its content is
\* the sanitized text between its command and the first
\* equation/theorem/paragraph marker or the next sectioning command.
C7_HierarchyReconstruction ==
    pc = "done" =>
        \A k \in 1..Len(matches) :
            \A n \in {SectionNode(k)} :
                /\ Cardinality({q \in NodeIds \X NodeIds :
                                  /\ q[2] <= Len(nodes[q[1]].children)
                                  /\ nodes[q[1]].children[q[2]] = n}) = 1
                /\ \A P \in {Above(matches[k].start, nodes[n].level)} :
                      IF P = {} THEN n \in ChildrenOf(Root)
                      ELSE \E o \in P : \E m \in NodeIds :
                              /\ \A x \in P : x[1] <= o[1]
                              /\ nodes[m].src_start = o[1] - 1
                              /\ nodes[m].node_type = o[2]
                              /\ n \in ChildrenOf(m)
                /\ nodes[n].content =
                       _clean_latex_text(Strip(Slice(content, matches[k].end, MainTextStop(k))))

\* C8: every occurrence of one of the seven sectioning commands yields a
\* section node of that kind at the level of the fixed mapping, and no
\* other command name yields a section node.
C8_AllSectioningCommands ==
    pc = "done" =>
        /\ \A o \in CommandOccurrences :
              \E n \in NodeIds :
                  /\ nodes[n].src_start = o[1] - 1
                  /\ nodes[n].node_type = o[2]
                  /\ nodes[n].level = SECTION_LEVELS[o[2]]
        /\ \A k \in 1..Len(matches) : matches[k].name \in DOMAIN SECTION_LEVELS

\* C9: every node created by parse() has a non-empty title.
C9_TitleNeverEmpty ==
    pc = "done" => \A n \in NodeIds : nodes[n].title # ""

\* the openings \begin{e} in the span of the k-th section, e a theorem-like
\* or equation environment, with no \end{e} behind them: <<position, e>>
Unterminated(k) ==
    {u \in (1..Len(SpanOf(k))) \X (THEOREM_ENVS \cup EQUATION_ENVS) :
        /\ StartsAt(SpanOf(k), u[1], "\\begin{" \o u[2] \o "}")
        /\ Find(SpanOf(k), "\\end{" \o u[2] \o "}", u[1]) = 0}

\* C14: unterminated environments are tolerated -- in the tree parse()
\* returns, a section whose span holds an environment opening with no
\* closing marker is present (attached under some node), while no node was
\* made from the offset of that opening and the section has no child
\* titled after that environment.
C14_UnterminatedTolerated ==
    pc = "done" =>
        \A k \in 1..Len(matches) : \A u \in Unterminated(k) :
            /\ \E n \in NodeIds : \E p \in NodeIds :
                  /\ nodes[n].src_start = matches[k].start
                  /\ nodes[n].node_type = matches[k].name
                  /\ n \in ChildrenOf(p)
                  /\ \A c \in ChildrenOf(n) : nodes[c].title # Title(u[2])
            /\ \A n \in NodeIds : nodes[n].src_start # matches[k].end + u[1] - 1

\* a finished parse of a section that holds a closed lemma, which became a
\* node, and an opening \begin{theorem} that is never closed
C14_Witness ==
    /\ pc = "done"
    /\ \E k \in 1..Len(matches) :
          /\ \E u \in Unterminated(k) : u[2] = "theorem"
          /\ \E c \in ChildrenOf(SectionNode(k)) : nodes[c].title = "Lemma"

\* the theorem-like environments in the span of the k-th section
TheoremsIn(k) ==
    {Matches("theorem_env", SpanOf(k), 0)[j] :
        j \in 1..Len(Matches("theorem_env", SpanOf(k), 0))}

\* C16: every theorem-like environment in a section's span that was not
\* merged into the section is a child of the section whose kind is the
\* environment's name, whose title is the capitalized name and whose
\* content is the sanitized inner text.
C16_TheoremKind ==
    pc = "done" =>
        \A k \in 1..Len(matches) : \A m \in TheoremsIn(k) :
            \/ /\ m.name = "definition"
               /\ nodes[SectionNode(k)].node_type = "section_with_definition"
               /\ nodes[SectionNode(k)].content = _clean_latex_text(m.inner)
            \/ \E c \in ChildrenOf(SectionNode(k)) :
                  /\ nodes[c].src_start = matches[k].end + m.start
                  /\ nodes[c].node_type = m.name
                  /\ nodes[c].title = Title(m.name)
                  /\ nodes[c].content = _clean_latex_text(m.inner)

\* the structured remainder of the k-th section, as handed to
\* _add_structured_content_to_section, and its offset in the body
Remainder(k) == _extract_remaining_content(Strip(SpanOf(k)))
RemainderBase(k) == matches[k].end + LeadWs(SpanOf(k)) + FirstMathPos(Strip(SpanOf(k)))

\* the prose in the gap behind the i-th element of the remainder s, up to
\* the next element or the end of s: the gap sanitized, or "" when the gap
\* is empty or begins with a command
GapProse(s, all, i) ==
    The({ IF gap = "" \/ (Ch(gap, 1) = "\\" /\ Ch(gap, 2) \in Letters) THEN ""
          ELSE _clean_latex_text(gap)
          : gap \in {Strip(Slice(s, all[i].end,
                                 IF i < Len(all) THEN all[i + 1].start ELSE Len(s)))} })

\* C17: prose attachment -- for every element of a section's remainder
\* and the prose in the gap behind it: an equation followed by prose is a
\* child of kind 'equation_with_explanation' with content '$$notation$$ '
\* and the prose; an equation followed by none is a child of kind
\* 'equation' with content '$$notation$$'; behind any other element with
\* prose, the next child is a node of kind 'explanation' holding the prose.
C17_ProseAttachment ==
    pc = "done" =>
        \A k \in 1..Len(matches) :
            \A all \in {AllElements(Remainder(k))} : \A i \in 1..Len(all) :
                \A prose \in {GapProse(Remainder(k), all, i)} :
                    \E j \in 1..Len(nodes[SectionNode(k)].children) :
                        \A c \in {nodes[SectionNode(k)].children[j]} :
                            /\ nodes[c].src_start = RemainderBase(k) + all[i].start
                            /\ all[i].type = "equation" =>
                                  IF prose # ""
                                  THEN /\ nodes[c].node_type = "equation_with_explanation"
                                       /\ nodes[c].content =
                                              "$$" \o all[i].content \o "$$ " \o prose
                                  ELSE /\ nodes[c].node_type = "equation"
                                       /\ nodes[c].content = "$$" \o all[i].content \o "$$"
                            /\ (all[i].type # "equation" /\ prose # "") =>
                                  /\ j < Len(nodes[SectionNode(k)].children)
                                  /\ \A e \in {nodes[SectionNode(k)].children[j + 1]} :
                                        /\ nodes[e].node_type = "explanation"
                                        /\ nodes[e].content = prose

\* a section with an equation that took the prose behind it
C17_Witness ==
    /\ pc = "done"
    /\ \E k \in 1..Len(matches) : \E c \in ChildrenOf(SectionNode(k)) :
          /\ nodes[c].node_type = "equation_with_explanation"
          /\ nodes[c].content = "$$x$$ Hi."

\* how many definitions were merged into node n, by the history ms
MergeCount(ms, n) == Cardinality({i \in DOMAIN ms : ms[i] = n})

\* C20: the merge-into-parent heuristic fires at most once per node -- in
\* every step of parse(), no node has more than one definition merged into
\* it; a node that takes a merge in the step had no content and no
\* children before the step; and a node that took a merge earlier keeps
\* its content and its kind.
C20_MergeAtMostOnce ==
    [][\A n \in 1..Len(nodes') :
          /\ MergeCount(merges', n) <= 1
          /\ MergeCount(merges', n) > MergeCount(merges, n) =>
                /\ n <= Len(nodes)
                /\ nodes[n].content = ""
                /\ nodes[n].children = <<>>
          /\ MergeCount(merges, n) > 0 =>
                /\ nodes'[n].content = nodes[n].content
                /\ nodes'[n].node_type = nodes[n].node_type]_vars

\* the largest key of section_stack below the key l
LowerKey(l) == TopLevel({m \in DOMAIN section_stack : m < l})

\* C21: ancestor lookup -- after any number of processed sectioning
\* commands, section_stack holds the root under key 0; when a command has
\* been processed it holds, under the level L of the last one, the section
\* made for it, and no key above L; and every entry above key 0 is a child
\* of the entry under the next lower key.
C21_AncestorLookup ==
    pc \in {"loop", "done"} =>
        /\ 0 \in DOMAIN section_stack
        /\ section_stack[0] = Root
        /\ idx = 1 => DOMAIN section_stack = {0}
        /\ idx > 1 =>
              \A L \in {LevelOf(matches[idx - 1].name)} :
                  /\ L \in DOMAIN section_stack
                  /\ \A l \in DOMAIN section_stack : l <= L
                  /\ nodes[section_stack[L]].src_start = matches[idx - 1].start
                  /\ nodes[section_stack[L]].node_type = matches[idx - 1].name
        /\ \A l \in DOMAIN section_stack \ {0} :
              section_stack[l] \in ChildrenOf(section_stack[LowerKey(l)])

\* three commands processed, the last one a section that took the entry of
\* a subsection off the lookup
C21_Witness ==
    /\ pc = "loop"
    /\ idx = 4
    /\ matches[2].name = "subsection"
    /\ matches[3].name = "section"
    /\ DOMAIN section_stack = {0, 2}
    /\ section_stack[2] \in ChildrenOf(Root)

(***************************************************************************)
(* Properties of _clean_latex_text.                                        *)
(***************************************************************************)
\* the positions of the character c in s
Occurrences(s, c) == {p \in 1..Len(s) : Ch(s, p) = c}

\* inline math spans of s that are delimited beyond doubt: a span from \( to
\* the first \) behind it with something in between and no dollar inside,
\* and the span between the two dollars of a text with exactly two,
\* non-adjacent dollars
MathSpans(s) ==
    {SubSeq(s, p, Find(s, "\\)", p + 3) + 1) :
        p \in {p \in 1..Len(s) :
                 /\ StartsAt(s, p, "\\(")
                 /\ Find(s, "\\)", p + 3) # 0
                 /\ ~Contains(SubSeq(s, p, Find(s, "\\)", p + 3)), "$")}}
    \cup {SubSeq(s, d[1], d[2]) :
            d \in {d \in Occurrences(s, "$") \X Occurrences(s, "$") :
                     Cardinality(Occurrences(s, "$")) = 2 /\ d[2] > d[1] + 1}}

\* C4: math preservation -- the output of _clean_latex_text contains every
\* inline math span of its input, $...$ or \(...\), character for character.
C4_MathPreserved ==
    cpc = "cleaned" => \A span \in MathSpans(text) : Contains(cleaned, span)

\* text without markup and without math delimiters: no backslash, brace,
\* tilde or dollar
Plain(s) == \A i \in 1..Len(s) : Ch(s, i) \notin {"\\", "{", "}", "~", "$"}

\* the maximal runs of non-whitespace characters of s, in order
RECURSIVE Tokens(_)
Tokens(s) ==
    The({ IF a = Len(s) THEN <<>>
          ELSE The({ <<SubSeq(s, a + 1, b - 1)>> \o Tokens(SubSeq(s, b, Len(s)))
                     : b \in {The({ IF w = 0 THEN Len(s) + 1 ELSE w
                                    : w \in {Least({w \in (a + 1)..Len(s) :
                                                      Ch(s, w) \in Whitespace})} })} })
          : a \in {LeadWs(s)} })

\* C15: sanitizer idempotence -- for a text with no markup and no math
\* delimiters, _clean_latex_text returns the text with every run of
\* whitespace collapsed to one space and the ends trimmed, and applying
\* _clean_latex_text to that result returns it unchanged.
C15_SanitizerIdempotent ==
    (cpc = "cleaned" /\ Plain(text)) =>
        /\ cleaned = Join(Tokens(text), " ")
        /\ _clean_latex_text(cleaned) = cleaned

\* a plain text of two words with whitespace around and between them
C15_Witness ==
    /\ cpc = "cleaned"
    /\ Plain(text)
    /\ Len(Tokens(text)) = 2
    /\ Len(text) > Len(cleaned) + 2
    /\ Contains(text, "\n")

\* text whose only markup is bare commands: no dollar, brace or tilde, and
\* every backslash is followed by a letter
BareOnly(s) ==
    \A i \in 1..Len(s) :
        /\ Ch(s, i) \notin {"{", "}", "~", "$"}
        /\ Ch(s, i) = "\\" => Ch(s, i + 1) \in Letters

\* s without its bare commands: every backslash goes with the whole run of
\* letters behind it
RECURSIVE WithoutCommands(_)
WithoutCommands(s) ==
    The({ IF p = 0 THEN s
          ELSE SubSeq(s, 1, p - 1)
               \o WithoutCommands(SubSeq(s, p + 1 + LetterRun(s, p + 1), Len(s)))
          : p \in {Find(s, "\\", 1)} })

\* C18: bare-command deletion -- in a text whose only markup is bare
\* commands, _clean_latex_text deletes every command in full, whatever
\* character follows it: the result is the text without the commands, its
\* whitespace normalized, and no letter of a command name is left.
C18_BareCommandDeleted ==
    (cpc = "cleaned" /\ BareOnly(text)) =>
        cleaned = Join(Tokens(WithoutCommands(text)), " ")

(***************************************************************************)
(* Properties of to_markdown.                                              *)
(***************************************************************************)
\* the line holds a <details> block
HasDetails(r) == Contains(r.line, "<details>")

\* the title in front of the <details> block of a line that holds one
TitlePart(r) ==
    SubSeq(r.line, 2 * r.depth + 3, Find(r.line, " <details>", 1) - 1)

Body(r) == SubSeq(r.line, 2 * r.depth + 3, Len(r.line) - 1)

\* C11 (as stated): outside markmap mode no line holds a <details> block; a printed
\* node whose content is empty or equal to its title is its title alone;
\* otherwise content of at most 200 characters follows the title in full,
\* and longer content follows it as its first 200 characters and "...".
C11_InlineContent ==
    (rpc = "rendered" /\ ~markmap_mode) =>
        \A i \in DOMAIN lines :
            \A node \in {nodes[lines[i].node]} :
                /\ ~HasDetails(lines[i])
                /\ IF node.content = "" \/ node.content = node.title
                   THEN Body(lines[i]) = node.title
                   ELSE \E sep \in {": ", " "} :
                           Body(lines[i]) =
                               node.title \o sep
                               \o (IF Len(node.content) <= 200 THEN node.content
                                   ELSE SubSeq(node.content, 1, 200) \o "...")

\* C11 (amended): outside markmap mode no line holds a <details> block; a
\* printed node whose content is empty or equal to its title is its title
\* alone; content that starts with '$' follows the title and a space in
\* full, whatever its length; other content follows the title and ": ", in
\* full when it has at most 200 characters and as its first 200 characters
\* and "..." when it is longer.
C11_InlineText ==
    (rpc = "rendered" /\ ~markmap_mode) =>
        \A i \in DOMAIN lines :
            \A node \in {nodes[lines[i].node]} :
                /\ ~HasDetails(lines[i])
                /\ Body(lines[i]) =
                       IF node.content = "" \/ node.content = node.title
                       THEN node.title
                       ELSE IF SubSeq(node.content, 1, 1) = "$"
                       THEN node.title \o " " \o node.content
                       ELSE IF Len(node.content) <= 200
                       THEN node.title \o ": " \o node.content
                       ELSE node.title \o ": " \o SubSeq(node.content, 1, 200) \o "..."

\* outside markmap mode, a text of more than 200 characters printed cut,
\* next to a node whose content is its title
C11_Witness ==
    /\ rpc = "rendered"
    /\ ~markmap_mode
    /\ \E i \in DOMAIN lines :
          /\ Len(nodes[lines[i].node].content) > 200
          /\ Ch(nodes[lines[i].node].content, 1) # "$"
          /\ Len(Body(lines[i])) = Len(nodes[lines[i].node].title) + 205
    /\ \E i \in DOMAIN lines :
          /\ nodes[lines[i].node].content = nodes[lines[i].node].title
          /\ Body(lines[i]) = nodes[lines[i].node].title

(***************************************************************************)
(* Properties of to_dict and to_json.                                      *)
(***************************************************************************)
\* the in-memory tree below node n in pre-order: what a traversal sees of
\* every node
RECURSIVE TreeWalk(_, _)
RECURSIVE TreeWalkAll(_, _, _)
TreeWalk(ns, n) ==
    <<<<ns[n].title, ns[n].content, ns[n].node_type, ns[n].level,
        Len(ns[n].children)>>>>
    \o TreeWalkAll(ns, ns[n].children, 1)

TreeWalkAll(ns, kids, k) ==
    IF k > Len(kids) THEN <<>>
    ELSE TreeWalk(ns, kids[k]) \o TreeWalkAll(ns, kids, k + 1)

\* the same traversal of a record of to_dict
RECURSIVE DictWalk(_)
RECURSIVE DictWalkAll(_, _)
DictWalk(d) ==
    <<<<d.title, d.content, d.type, d.level, Len(d.children)>>>>
    \o DictWalkAll(d.children, 1)

DictWalkAll(ds, k) ==
    IF k > Len(ds) THEN <<>> ELSE DictWalk(ds[k]) \o DictWalkAll(ds, k + 1)

\* the character an escape sequence of json.dumps stands for
UnescapeCh(c) ==
    CASE c = "n" -> "\n" [] c = "t" -> "\t" [] c = "r" -> "\r" [] c = "f" -> "\f"
      [] OTHER -> c

\* the string a JSON string body stands for
RECURSIVE Unescape(_)
Unescape(s) ==
    The({ IF p = 0 THEN s
          ELSE SubSeq(s, 1, p - 1) \o UnescapeCh(Ch(s, p + 1))
               \o Unescape(SubSeq(s, p + 2, Len(s)))
          : p \in {Find(s, "\\", 1)} })

\* the number a string of digits stands for
RECURSIVE ParseInt(_)
ParseInt(s) ==
    IF s = "" THEN 0
    ELSE 10 * ParseInt(SubSeq(s, 1, Len(s) - 1))
         + (Find("0123456789", Ch(s, Len(s)), 1) - 1)

\* the text of the member "key" on a line of the JSON text, without the
\* comma that ends the line
Member(line, key) ==
    The({ SubSeq(t, Len(key) + 5, IF Ch(t, Len(t)) = "," THEN Len(t) - 1 ELSE Len(t))
          : t \in {Strip(line)} })

\* the string between the quotes of a member
StringMember(line, key) ==
    The({ Unescape(SubSeq(m, 2, Len(m) - 1)) : m \in {Member(line, key)} })

\* json.loads of the object that opens on line i of ls, and of the members
\* of a list from line i on: [value, next], next being the line behind it
RECURSIVE Loads(_, _)
RECURSIVE LoadItems(_, _)
Loads(ls, i) ==
    The({ [value |-> [title |-> StringMember(ls[i + 1], "title"),
                      content |-> StringMember(ls[i + 2], "content"),
                      type |-> StringMember(ls[i + 3], "type"),
                      level |-> ParseInt(Member(ls[i + 4], "level")),
                      children |-> kids.value],
           next |-> kids.next + 1]
          : kids \in {IF Member(ls[i + 5], "children") = "[]"
                      THEN [value |-> <<>>, next |-> i + 6]
                      ELSE LoadItems(ls, i + 6)} })

LoadItems(ls, i) ==
    IF Strip(ls[i]) = "]" THEN [value |-> <<>>, next |-> i + 1]
    ELSE The({ The({ [value |-> <<first.value>> \o rest.value, next |-> rest.next]
                     : rest \in {LoadItems(ls, first.next)} })
               : first \in {Loads(ls, i)} })

\* C12: to_dict and to_json are lossless -- the record of to_dict, and
\* the record read back from the text of to_json, hold one record per
\* node, the root included, with the node's title, content, kind (as
\* 'type') and level and with the children in stored order: traversing
\* either gives what traversing the in-memory tree gives.
C12_StructuredLossless ==
    (rpc = "rendered" /\ format = "json") =>
        /\ DictWalk(record) = TreeWalk(nodes, Root)
        /\ Len(DictWalk(record)) = Len(nodes)
        /\ DictWalk(Loads(Split(output, "\n"), 1).value) = TreeWalk(nodes, Root)

\* a tree with a section that holds two children, one of them with a
\* newline in its content, written as JSON
C12_Witness ==
    /\ rpc = "rendered"
    /\ format = "json"
    /\ \E n \in NodeIds \ {Root} :
          /\ Len(nodes[n].children) = 2
          /\ \E c \in ChildrenOf(n) : Contains(nodes[c].content, "\n")
    /\ Contains(output, "\\n")

(***************************************************************************)
(* Properties of to_markdown on the trees of parse().                      *)
(***************************************************************************)
\* the node that holds n among its children
ParentOf(n) == CHOOSE m \in NodeIds : n \in ChildrenOf(m)

\* depth in the tree, the children of the root being at depth 0
RECURSIVE DepthOf(_)
DepthOf(n) == IF n \in ChildrenOf(Root) THEN 0 ELSE 1 + DepthOf(ParentOf(n))

\* the indices of the lines printed for node n
LinesOf(n) == {i \in DOMAIN lines : lines[i].node = n}

\* C13: depth cutoff -- with the children of the root at depth 0, a node
\* below the root is printed (once, indented by two spaces per depth
\* level) if and only if its depth is at most max_depth, so that a node
\* beyond max_depth is left out with its whole subtree; the root is never
\* printed as a bullet, only as the heading line that opens the output.
C13_DepthCutoff ==
    (rpc = "rendered" /\ format = "markdown") =>
        /\ \A n \in NodeIds \ {Root} :
              /\ LinesOf(n) # {} <=> DepthOf(n) <= max_depth
              /\ Cardinality(LinesOf(n)) <= 1
              /\ \A i \in LinesOf(n) :
                    StartsAt(lines[i].line, 1, Indent(DepthOf(n)) \o "- ")
        /\ LinesOf(Root) = {}
        /\ StartsAt(output, 1, "# " \o nodes[Root].title \o "\n\n")
        /\ output = "# " \o nodes[Root].title \o "\n\n" \o LinesText(lines)

\* max_depth = 0: a node at depth 0 is printed, its child at depth 1 and
\* the child of that child are left out
C13_Witness ==
    /\ rpc = "rendered"
    /\ format = "markdown"
    /\ max_depth = 0
    /\ \E n \in NodeIds \ {Root} : \E c \in ChildrenOf(n) : \E g \in ChildrenOf(c) :
          /\ DepthOf(n) = 0
          /\ LinesOf(n) # {}
          /\ LinesOf(c) = {}
          /\ LinesOf(g) = {}

\* the child indices on the way from the root down to node n
RECURSIVE PathOf(_)
PathOf(n) ==
    IF n = Root THEN <<>>
    ELSE Append(PathOf(ParentOf(n)),
                CHOOSE j \in 1..Len(nodes[ParentOf(n)].children) :
                    nodes[ParentOf(n)].children[j] = n)

\* depth-first pre-order with children in stored order: p comes before q
Before(p, q) ==
    \E k \in 1..Len(q) :
        /\ \A j \in 1..(k - 1) : j <= Len(p) /\ p[j] = q[j]
        /\ k = Len(p) + 1 \/ (k <= Len(p) /\ p[k] < q[k])

\* the nodes that are rendered, and the place of one among them
RenderedNodes == {n \in NodeIds \ {Root} : DepthOf(n) <= max_depth}
Rank(n) == 1 + Cardinality({m \in RenderedNodes : Before(PathOf(m), PathOf(n))})

\* C19: outline line structure -- behind the heading and the empty line
\* that follows it, the output of to_markdown has exactly one line per
\* rendered node, in depth-first pre-order with children in stored order,
\* and the line of a node is two spaces per depth level, "- " and the
\* node's text, which opens with its title; no node's text runs over more
\* than one line.
C19_OneLinePerNode ==
    (rpc = "rendered" /\ format = "markdown") =>
        \A out \in {Split(output, "\n")} :
            /\ Len(out) = Cardinality(RenderedNodes) + 3
            /\ out[1] = "# " \o nodes[Root].title
            /\ out[2] = ""
            /\ out[Len(out)] = ""
            /\ \A n \in RenderedNodes :
                  StartsAt(out[Rank(n) + 2], 1,
                           Indent(DepthOf(n)) \o "- " \o Slice(nodes[n].title, 0, 47))

====
